---- MODULE Spec2Model ----
(***************************************************************************)
(* Blob gateway: direct upload (BlobUploadEndpoint), presigned upload      *)
(* (BlobPresignUploadEndpoint), get-reference (BlobGetEndpoint) and        *)
(* stream-download (registerBlobDownloadRoute) over one KV namespace and   *)
(* two R2 buckets.  Every request is a process; a handler is split into    *)
(* one action per stretch of code between two awaits, so that concurrent   *)
(* requests interleave exactly where the workers runtime lets them.        *)
(*                                                                         *)
(* Strings that take part in key derivation (namespace, key, r2Key, kvKey, *)
(* url path) are sequences of one-character strings, so that template      *)
(* literals are concatenations.  Other strings are TLA+ strings.           *)
(***************************************************************************)
EXTENDS Integers, Sequences, FiniteSets, TLC

VARIABLES KV, R2, R2_PUBLIC, pc, locals, resp, clock, solo, calls, writes

vars == <<KV, R2, R2_PUBLIC, pc, locals, resp, clock, solo, calls, writes>>

stores == <<KV, R2, R2_PUBLIC>>

(***************************************************************************)
(* Bounds and input sets                                                   *)
(***************************************************************************)
MaxPayloadLen == 2

MaxSize == 2

Procs == {"r1", "r2"}

\* request bodies of a direct upload: one byte string of every length up to
\* MaxPayloadLen (the bytes 1, 2, ..., n), the empty body included
Payloads == {[i \in 1..n |-> i] : n \in 0..MaxPayloadLen}

\* (namespace, key) pairs a request may carry; <<>> is the absent or empty
\* header / field (both falsy in the code).  ("a", ":b") and ("a:", "b") are
\* distinct pairs that contain the separator.
Idents == {<<<<>>, <<"b">>>>, <<<<"a">>, <<>>>>, <<<<"a">>, <<"b">>>>,
           <<<<"a">>, <<":", "b">>>>, <<<<"a", ":">>, <<"b">>>>}

ContentTypes == {"", "text/plain"}

PublicHeaders == {"", "true", "false"}

Sizes == -1..MaxSize

(***************************************************************************)
(* Values                                                                  *)
(***************************************************************************)
\* JS null / undefined for an R2 object
null == [null |-> TRUE]

NoLocals == [op |-> "none"]

NoResp == [status |-> 0]

\* c.json({ code, message }, code)
ErrorResponse(code, message) == [status |-> code, message |-> message]

\* an await that throws: the framework answers 500
Thrown == [status |-> 500, message |-> "Internal Server Error"]

\* `!s` for a string held as a sequence: undefined, null and "" are falsy
Falsy(s) == Len(s) = 0

(***************************************************************************)
(* Blob key derivation                                                     *)
(***************************************************************************)
\* `${namespace}:${key}`
r2KeyOf(namespace, key) == namespace \o <<":">> \o key

\* `__BLOB:${namespace}:${key}`
kvKeyOf(namespace, key) ==
  <<"_", "_", "B", "L", "O", "B", ":">> \o namespace \o <<":">> \o key

\* const bucket = isPublic ? c.env.R2_PUBLIC : c.env.R2  (the binding's name)
bucketOf(isPublic) == IF isPublic THEN "R2_PUBLIC" ELSE "R2"

(***************************************************************************)
(* Stores: partial maps from keys to values                                *)
(***************************************************************************)
\* StorePut that replaces the whole store by the one entry written
StorePut_Replace(store, k, v) == [x \in {k} |-> v]

\* StorePut that keeps the value a key already has
StorePut_KeepFirst(store, k, v) ==
  [x \in (DOMAIN store) \cup {k} |-> IF x \in DOMAIN store THEN store[x] ELSE v]

StorePut(store, k, v) ==
  [x \in (DOMAIN store) \cup {k} |-> IF x = k THEN v ELSE store[x]]

\* KV.get(kvKey): the stored string, or null (held as the falsy <<>>)
KVget(kv, kvKey) == IF kvKey \in DOMAIN kv THEN kv[kvKey] ELSE <<>>

\* bucket.get(r2Key): the R2 object, or null
bucketGet(bucket, r2Key) == IF r2Key \in DOMAIN bucket THEN bucket[r2Key] ELSE null

\* the R2 object bucket.put(r2Key, body, { httpMetadata: { contentType } }) stores
R2Object(body, contentType) == [body |-> body, httpMetadata |-> [contentType |-> contentType]]

(***************************************************************************)
(* Metadata record and its JSON form                                       *)
(***************************************************************************)
BlobMetadata(key, namespace, size, contentType, uploadedAt, isPublic) ==
  [key |-> key, namespace |-> namespace, size |-> size,
   contentType |-> contentType, uploadedAt |-> uploadedAt, isPublic |-> isPublic]

\* JSON.stringify(metadata): the property values in insertion order
JSONstringify(m) == <<m.key, m.namespace, m.size, m.contentType, m.uploadedAt, m.isPublic>>

\* JSON.parse(metadataStr)
JSONparse(s) ==
  [key |-> s[1], namespace |-> s[2], size |-> s[3],
   contentType |-> s[4], uploadedAt |-> s[5], isPublic |-> s[6]]

(***************************************************************************)
(* Process bookkeeping                                                     *)
(***************************************************************************)
InFlight(q) == pc[q] \notin {"idle", "done"}

\* solo[p]: no other request took a step while p was being handled
SoloBegin(p) ==
  solo' = [q \in Procs |-> IF q = p THEN TRUE ELSE IF InFlight(q) THEN FALSE ELSE solo[q]]

SoloStep(p) ==
  solo' = [q \in Procs |-> IF q # p /\ InFlight(q) THEN FALSE ELSE solo[q]]

\* calls[p]: how many times request p has called each collaborator so far
Collaborators == {"KV.get", "KV.put", "bucket.get", "bucket.put", "getSignedUrl"}

NoCalls == [c \in Collaborators |-> 0]

\* writes: the puts the stores have applied, in the order they applied them
Call(p, c) ==
  /\ calls' = [calls EXCEPT ![p][c] = @ + 1]
  /\ writes' = IF c \in {"bucket.put", "KV.put"} THEN Append(writes, <<p, c>>) ELSE writes

Finish(p, response) ==
  /\ pc' = [pc EXCEPT ![p] = "done"]
  /\ locals' = [locals EXCEPT ![p] = [op |-> locals[p].op]]
  /\ resp' = [resp EXCEPT ![p] = response]

Goto(p, label, l) ==
  /\ pc' = [pc EXCEPT ![p] = label]
  /\ locals' = [locals EXCEPT ![p] = l]
  /\ UNCHANGED resp

Init ==
  /\ KV = <<>>
  /\ R2 = <<>>
  /\ R2_PUBLIC = <<>>
  /\ pc = [p \in Procs |-> "idle"]
  /\ locals = [p \in Procs |-> NoLocals]
  /\ resp = [p \in Procs |-> NoResp]
  /\ clock = 0
  /\ solo = [p \in Procs |-> TRUE]
  /\ calls = [p \in Procs |-> NoCalls]
  /\ writes = <<>>

(***************************************************************************)
(* Direct upload: BlobUploadEndpoint.handle                                *)
(***************************************************************************)
\* headers read and checked, up to `await c.req.arrayBuffer()`
UploadBegin(p) ==
  /\ pc[p] = "idle"
  /\ \E id \in Idents, pub \in PublicHeaders, ct \in ContentTypes :
       LET namespace == id[1]
           key == id[2]
           isPublic == (pub = "true")
           contentType == IF ct = "" THEN "application/octet-stream" ELSE ct
       IN IF Falsy(namespace) \/ Falsy(key)
          THEN /\ pc' = [pc EXCEPT ![p] = "done"]
               /\ locals' = [locals EXCEPT ![p] = [op |-> "upload"]]
               /\ resp' = [resp EXCEPT ![p] =
                    ErrorResponse(400, "Missing x-blob-namespace or x-blob-key header")]
          ELSE Goto(p, "u_body", [op |-> "upload", namespace |-> namespace, key |-> key,
                                  isPublic |-> isPublic, contentType |-> contentType])
  /\ SoloBegin(p)
  /\ UNCHANGED <<stores, clock, calls, writes>>

\* UploadBody without the `size === 0` check
UploadBody_NoEmptyCheck(p) ==
  /\ pc[p] = "u_body"
  /\ \E body \in Payloads :
       LET l == locals[p]
       IN Goto(p, "u_put", [op |-> "upload", namespace |-> l.namespace, key |-> l.key,
                            isPublic |-> l.isPublic, contentType |-> l.contentType,
                            body |-> body, size |-> Len(body),
                            bucket |-> bucketOf(l.isPublic),
                            r2Key |-> r2KeyOf(l.namespace, l.key)])
  /\ SoloStep(p)
  /\ UNCHANGED <<stores, clock, calls, writes>>

\* the body arrives; size check; bucket and r2Key chosen, up to `await bucket.put`
UploadBody(p) ==
  /\ pc[p] = "u_body"
  /\ \E body \in Payloads :
       LET size == Len(body)
           l == locals[p]
       IN IF size = 0
          THEN /\ pc' = [pc EXCEPT ![p] = "done"]
               /\ locals' = [locals EXCEPT ![p] = [op |-> "upload", size |-> size]]
               /\ resp' = [resp EXCEPT ![p] = ErrorResponse(400, "Empty file")]
          ELSE Goto(p, "u_put", [op |-> "upload", namespace |-> l.namespace, key |-> l.key,
                                 isPublic |-> l.isPublic, contentType |-> l.contentType,
                                 body |-> body, size |-> size,
                                 bucket |-> bucketOf(l.isPublic),
                                 r2Key |-> r2KeyOf(l.namespace, l.key)])
  /\ SoloStep(p)
  /\ UNCHANGED <<stores, clock, calls, writes>>

\* bucket.put applied to the bucket the binding names
BucketPut(bucket, r2Key, object) ==
  /\ R2' = IF bucket = "R2" THEN StorePut(R2, r2Key, object) ELSE R2
  /\ R2_PUBLIC' = IF bucket = "R2_PUBLIC" THEN StorePut(R2_PUBLIC, r2Key, object) ELSE R2_PUBLIC

\* UploadPut with the two writes in the wrong order: the record is written
\* while the object is not yet stored
UploadPut_MetadataFirst(p) ==
  /\ pc[p] = "u_put"
  /\ LET l == locals[p]
         metadata == BlobMetadata(l.key, l.namespace, l.size, l.contentType, clock, l.isPublic)
     IN /\ KV' = StorePut(KV, kvKeyOf(l.namespace, l.key), JSONstringify(metadata))
        /\ Goto(p, "u_kv", [op |-> "upload", namespace |-> l.namespace, key |-> l.key,
                            body |-> l.body, contentType |-> l.contentType,
                            size |-> l.size, metadata |-> metadata,
                            kvKey |-> kvKeyOf(l.namespace, l.key)])
  /\ clock' = clock + 1
  /\ Call(p, "KV.put")
  /\ SoloStep(p)
  /\ UNCHANGED <<R2, R2_PUBLIC>>

\* bucket.put resolves; the metadata record is built, up to `await c.env.KV.put`
UploadPut(p) ==
  /\ pc[p] = "u_put"
  /\ LET l == locals[p]
         metadata == BlobMetadata(l.key, l.namespace, l.size, l.contentType, clock, l.isPublic)
     IN /\ BucketPut(l.bucket, l.r2Key, R2Object(l.body, l.contentType))
        /\ Goto(p, "u_kv", [op |-> "upload", namespace |-> l.namespace, key |-> l.key,
                            body |-> l.body, contentType |-> l.contentType,
                            size |-> l.size, metadata |-> metadata,
                            kvKey |-> kvKeyOf(l.namespace, l.key)])
  /\ clock' = clock + 1
  /\ Call(p, "bucket.put")
  /\ SoloStep(p)
  /\ UNCHANGED KV

\* KV.put resolves; return c.json({ metadata })
UploadKVPut(p) ==
  /\ pc[p] = "u_kv"
  /\ LET l == locals[p]
     IN /\ KV' = StorePut(KV, l.kvKey, JSONstringify(l.metadata))
        /\ pc' = [pc EXCEPT ![p] = "done"]
        /\ locals' = [locals EXCEPT ![p] = [op |-> "upload", body |-> l.body]]
        /\ resp' = [resp EXCEPT ![p] = [status |-> 200, metadata |-> l.metadata]]
  /\ Call(p, "KV.put")
  /\ SoloStep(p)
  /\ UNCHANGED <<R2, R2_PUBLIC, clock>>

\* UploadThrow that still records the blob when bucket.put rejected
UploadThrow_StillWritesMetadata(p) ==
  /\ pc[p] \in {"u_body", "u_put", "u_kv"}
  /\ Finish(p, Thrown)
  /\ IF pc[p] = "u_put"
     THEN LET l == locals[p]
          IN KV' = StorePut(KV, kvKeyOf(l.namespace, l.key),
                            JSONstringify(BlobMetadata(l.key, l.namespace, l.size,
                                                       l.contentType, clock, l.isPublic)))
     ELSE UNCHANGED KV
  /\ calls' = [calls EXCEPT ![p] =
       IF pc[p] = "u_put" THEN [@ EXCEPT !["bucket.put"] = @ + 1, !["KV.put"] = @ + 1]
       ELSE IF pc[p] = "u_kv" THEN [@ EXCEPT !["KV.put"] = @ + 1]
       ELSE @]
  /\ UNCHANGED writes
  /\ SoloStep(p)
  /\ UNCHANGED <<R2, R2_PUBLIC, clock>>

\* UploadThrow with a retry: a rejected KV.put is issued a second time and
\* the second attempt is applied
UploadThrow_Retry(p) ==
  /\ pc[p] \in {"u_body", "u_put", "u_kv"}
  /\ IF pc[p] = "u_kv"
     THEN /\ KV' = StorePut(KV, locals[p].kvKey, JSONstringify(locals[p].metadata))
          /\ Finish(p, [status |-> 200, metadata |-> locals[p].metadata])
          /\ calls' = [calls EXCEPT ![p]["KV.put"] = @ + 2]
          /\ writes' = Append(writes, <<p, "KV.put">>)
     ELSE /\ Finish(p, Thrown)
          /\ calls' = [calls EXCEPT ![p] =
               IF pc[p] = "u_put" THEN [@ EXCEPT !["bucket.put"] = @ + 1] ELSE @]
          /\ UNCHANGED <<KV, writes>>
  /\ SoloStep(p)
  /\ UNCHANGED <<R2, R2_PUBLIC, clock>>

\* the awaited body read, bucket.put or KV.put rejects (I/O failure, caller
\* disconnect mid-stream): the handler throws at that await and runs no
\* further statement.  A worker killed at an await takes no further step at
\* all, which every behaviour that stops there already covers.
UploadThrow(p) ==
  /\ pc[p] \in {"u_body", "u_put", "u_kv"}
  /\ Finish(p, Thrown)
  /\ calls' = [calls EXCEPT ![p] =
       IF pc[p] = "u_put" THEN [@ EXCEPT !["bucket.put"] = @ + 1]
       ELSE IF pc[p] = "u_kv" THEN [@ EXCEPT !["KV.put"] = @ + 1]
       ELSE @]
  /\ UNCHANGED writes
  /\ SoloStep(p)
  /\ UNCHANGED <<stores, clock>>

Upload(p) == UploadBegin(p) \/ UploadBody(p) \/ UploadPut(p) \/ UploadKVPut(p) \/ UploadThrow(p)

(***************************************************************************)
(* Presigned upload: BlobPresignUploadEndpoint.handle                      *)
(***************************************************************************)
Credentials == {"R2_ACCOUNT_ID", "R2_ACCESS_KEY_ID", "R2_SECRET_ACCESS_KEY"}

\* c.env as the request sees it: which credential bindings are set
Envs == [Credentials -> BOOLEAN]

\* CredentialsMissing that looks at the account id only
CredentialsMissing_AccountOnly(e) == ~e["R2_ACCOUNT_ID"]

\* !c.env.R2_ACCOUNT_ID || !c.env.R2_ACCESS_KEY_ID || !c.env.R2_SECRET_ACCESS_KEY
CredentialsMissing(e) ==
  ~e["R2_ACCOUNT_ID"] \/ ~e["R2_ACCESS_KEY_ID"] \/ ~e["R2_SECRET_ACCESS_KEY"]

\* the namespace schema of ../../types: a non-empty string
NamespaceValue(namespace) == ~Falsy(namespace)

\* PresignUploadRequest whose size is any number
PresignUploadRequest_AnySize(namespace, key, contentType, size, isPublic) ==
  NamespaceValue(namespace)

\* PresignUploadRequest.safeParse(body).success; key: z.string() takes any
\* string, contentType: z.string() too, size: z.number().int().positive()
PresignUploadRequest(namespace, key, contentType, size, isPublic) ==
  /\ NamespaceValue(namespace)
  /\ size > 0

\* isPublic ? "federise-objects-public" : "federise-objects"
bucketNameOf(isPublic) == IF isPublic THEN "federise-objects-public" ELSE "federise-objects"

expiresIn == 3600

\* new PutObjectCommand({ Bucket, Key, ContentType, ContentLength })
PutObjectCommand(bucketName, r2Key, contentType, size) ==
  [Bucket |-> bucketName, Key |-> r2Key, ContentType |-> contentType, ContentLength |-> size]

\* getSignedUrl(s3Client, command, { expiresIn }): the URL carries what it signs
getSignedUrl(command, expiry) == [signed |-> command, expiresIn |-> expiry]

\* JSON bodies a presign request may carry (isPublic absent counts as false)
PresignBodies ==
  {[namespace |-> id[1], key |-> id[2], contentType |-> ct, size |-> sz, isPublic |-> pub] :
     id \in Idents, ct \in ContentTypes, sz \in Sizes, pub \in BOOLEAN}

\* a request arrives under bindings e, carrying a JSON body whose size field
\* is sz; the credentials check, up to `await c.req.json()`
PresignBegin(p) ==
  /\ pc[p] = "idle"
  /\ \E e \in Envs, sz \in Sizes :
       IF CredentialsMissing(e)
       THEN /\ pc' = [pc EXCEPT ![p] = "done"]
            /\ locals' = [locals EXCEPT ![p] = [op |-> "presign", env |-> e, size |-> sz]]
            /\ resp' = [resp EXCEPT ![p] =
                 ErrorResponse(503, "R2 credentials not configured for presigned URLs")]
       ELSE Goto(p, "p_json", [op |-> "presign", env |-> e, size |-> sz])
  /\ SoloBegin(p)
  /\ UNCHANGED <<stores, clock, calls, writes>>

\* the JSON body is read and parsed; the command is built, up to
\* `await getSignedUrl`
PresignParse(p) ==
  /\ pc[p] = "p_json"
  /\ \E body \in PresignBodies :
       /\ body.size = locals[p].size
       /\ LET e == locals[p].env
          IN IF ~PresignUploadRequest(body.namespace, body.key, body.contentType,
                                      body.size, body.isPublic)
             THEN /\ pc' = [pc EXCEPT ![p] = "done"]
                  /\ locals' = [locals EXCEPT ![p] =
                       [op |-> "presign", env |-> e, size |-> body.size]]
                  /\ resp' = [resp EXCEPT ![p] = ErrorResponse(400, "Invalid request body")]
             ELSE LET namespace == body.namespace
                      key == body.key
                      bucketName == bucketNameOf(body.isPublic)
                      r2Key == r2KeyOf(namespace, key)
                  IN Goto(p, "p_sign",
                          [op |-> "presign", env |-> e, namespace |-> namespace, key |-> key,
                           contentType |-> body.contentType, size |-> body.size,
                           isPublic |-> body.isPublic,
                           command |-> PutObjectCommand(bucketName, r2Key,
                                                        body.contentType, body.size)])
  /\ SoloStep(p)
  /\ UNCHANGED <<stores, clock, calls, writes>>

\* getSignedUrl resolves; expiresAt and the provisional record are built, up
\* to `await c.env.KV.put`
PresignSign(p) ==
  /\ pc[p] = "p_sign"
  /\ LET l == locals[p]
         uploadUrl == getSignedUrl(l.command, expiresIn)
         expiresAt == clock + expiresIn * 1000
         metadata == BlobMetadata(l.key, l.namespace, l.size, l.contentType, clock, l.isPublic)
     IN Goto(p, "p_kv", [op |-> "presign", env |-> l.env, size |-> l.size,
                         uploadUrl |-> uploadUrl, expiresAt |-> expiresAt,
                         metadata |-> metadata, kvKey |-> kvKeyOf(l.namespace, l.key)])
  /\ clock' = clock + 1
  /\ Call(p, "getSignedUrl")
  /\ SoloStep(p)
  /\ UNCHANGED stores

\* PresignKVPut without the await: the URL is returned while the metadata
\* write is still outstanding
PresignKVPut_NotAwaited(p) ==
  /\ pc[p] = "p_kv"
  /\ LET l == locals[p]
     IN /\ pc' = [pc EXCEPT ![p] = "done"]
        /\ locals' = [locals EXCEPT ![p] =
             [op |-> "presign", env |-> l.env, size |-> l.size, metadata |-> l.metadata]]
        /\ resp' = [resp EXCEPT ![p] =
             [status |-> 200, uploadUrl |-> l.uploadUrl, expiresAt |-> l.expiresAt]]
  /\ calls' = [calls EXCEPT ![p]["KV.put"] = @ + 1]
  /\ SoloStep(p)
  /\ UNCHANGED <<stores, clock, writes>>

\* KV.put resolves; return c.json({ uploadUrl, expiresAt })
PresignKVPut(p) ==
  /\ pc[p] = "p_kv"
  /\ LET l == locals[p]
     IN /\ KV' = StorePut(KV, l.kvKey, JSONstringify(l.metadata))
        /\ pc' = [pc EXCEPT ![p] = "done"]
        /\ locals' = [locals EXCEPT ![p] =
             [op |-> "presign", env |-> l.env, size |-> l.size, metadata |-> l.metadata]]
        /\ resp' = [resp EXCEPT ![p] =
             [status |-> 200, uploadUrl |-> l.uploadUrl, expiresAt |-> l.expiresAt]]
  /\ Call(p, "KV.put")
  /\ SoloStep(p)
  /\ UNCHANGED <<R2, R2_PUBLIC, clock>>

\* c.req.json(), getSignedUrl or KV.put rejects: the handler throws there
PresignThrow(p) ==
  /\ pc[p] \in {"p_json", "p_sign", "p_kv"}
  /\ pc' = [pc EXCEPT ![p] = "done"]
  /\ locals' = [locals EXCEPT ![p] =
       [op |-> "presign", env |-> locals[p].env, size |-> locals[p].size]]
  /\ resp' = [resp EXCEPT ![p] = Thrown]
  /\ calls' = [calls EXCEPT ![p] =
       IF pc[p] = "p_sign" THEN [@ EXCEPT !["getSignedUrl"] = @ + 1]
       ELSE IF pc[p] = "p_kv" THEN [@ EXCEPT !["KV.put"] = @ + 1]
       ELSE @]
  /\ UNCHANGED writes
  /\ SoloStep(p)
  /\ UNCHANGED <<stores, clock>>

Presign(p) ==
  PresignBegin(p) \/ PresignParse(p) \/ PresignSign(p) \/ PresignKVPut(p) \/ PresignThrow(p)

(***************************************************************************)
(* Retrieval: BlobGetEndpoint.handle and the /blob/download route          *)
(***************************************************************************)
\* encodeURIComponent over the characters identifiers are made of: ":" is
\* reserved and escaped, letters are kept
encodeURIComponent(str) ==
  LET enc[i \in 0..Len(str)] ==
        IF i = 0 THEN <<>>
        ELSE enc[i - 1] \o (IF str[i] = ":" THEN <<"%", "3", "A">> ELSE <<str[i]>>)
  IN enc[Len(str)]

\* new URL(c.req.url).origin
gatewayOrigin == <<"https://gateway">>

\* the {namespace, key} schema of ../../types
BlobGetRequest(namespace, key) == NamespaceValue(namespace)

BlobNotFound == ErrorResponse(404, "Blob not found")

\* ObjectNotFound worded like BlobNotFound
ObjectNotFound_SameMessage == ErrorResponse(404, "Blob not found")

ObjectNotFound == ErrorResponse(404, "Blob not found in storage")

\* the answer of get-reference once KV.get has returned metadataStr
GetResponse(metadataStr, namespace, key) ==
  IF Falsy(metadataStr)
  THEN BlobNotFound
  ELSE [status |-> 200,
        url |-> gatewayOrigin \o <<"/blob/download/">> \o encodeURIComponent(namespace)
                  \o <<"/">> \o encodeURIComponent(key),
        metadata |-> JSONparse(metadataStr)]

\* String(n)
String(n) == ToString(n)

\* DownloadResponse that always answers with the default content type
DownloadResponse_Octet(metadata, object, key) ==
  IF object = null
  THEN ObjectNotFound
  ELSE [status |-> 200,
        headers |-> [ContentType |-> "application/octet-stream",
                     ContentLength |-> String(metadata.size),
                     ContentDisposition |-> <<"attachment; filename=\"">>
                                              \o encodeURIComponent(key) \o <<"\"">>],
        body |-> object.body]

\* the answer of stream-download once bucket.get has returned object
DownloadResponse(metadata, object, key) ==
  IF object = null
  THEN ObjectNotFound
  ELSE [status |-> 200,
        headers |-> [ContentType |-> IF metadata.contentType = ""
                                     THEN "application/octet-stream"
                                     ELSE metadata.contentType,
                     ContentLength |-> String(metadata.size),
                     ContentDisposition |-> <<"attachment; filename=\"">>
                                              \o encodeURIComponent(key) \o <<"\"">>],
        body |-> object.body]

\* validated body, up to `await c.env.KV.get`
GetBegin(p) ==
  /\ pc[p] = "idle"
  /\ \E id \in Idents :
       IF ~BlobGetRequest(id[1], id[2])
       THEN /\ pc' = [pc EXCEPT ![p] = "done"]
            /\ locals' = [locals EXCEPT ![p] = [op |-> "get"]]
            /\ resp' = [resp EXCEPT ![p] = ErrorResponse(400, "Input Validation Error")]
       ELSE Goto(p, "g_kv", [op |-> "get", namespace |-> id[1], key |-> id[2],
                             kvKey |-> kvKeyOf(id[1], id[2])])
  /\ SoloBegin(p)
  /\ UNCHANGED <<stores, clock, calls, writes>>

\* GetKVGet that also looks the object up in the bucket the record names and
\* answers 404 when it is not there
GetKVGet_HeadObject(p) ==
  /\ pc[p] = "g_kv"
  /\ LET l == locals[p]
         metadataStr == KVget(KV, l.kvKey)
         found == ~Falsy(metadataStr)
         object == bucketGet(IF JSONparse(metadataStr).isPublic THEN R2_PUBLIC ELSE R2,
                             r2KeyOf(l.namespace, l.key))
     IN /\ pc' = [pc EXCEPT ![p] = "done"]
        /\ locals' = [locals EXCEPT ![p] = [op |-> "get", namespace |-> l.namespace, key |-> l.key]]
        /\ resp' = [resp EXCEPT ![p] =
             IF found /\ object = null THEN ObjectNotFound
             ELSE GetResponse(metadataStr, l.namespace, l.key)]
        /\ calls' = [calls EXCEPT ![p] =
             [@ EXCEPT !["KV.get"] = @ + 1,
                       !["bucket.get"] = IF found THEN @ + 1 ELSE @]]
  /\ SoloStep(p)
  /\ UNCHANGED <<stores, clock, writes>>

\* KV.get resolves; 404 or { url, metadata }
GetKVGet(p) ==
  /\ pc[p] = "g_kv"
  /\ LET l == locals[p]
         metadataStr == KVget(KV, l.kvKey)
     IN /\ pc' = [pc EXCEPT ![p] = "done"]
        /\ locals' = [locals EXCEPT ![p] = [op |-> "get", namespace |-> l.namespace, key |-> l.key]]
        /\ resp' = [resp EXCEPT ![p] = GetResponse(metadataStr, l.namespace, l.key)]
  /\ Call(p, "KV.get")
  /\ SoloStep(p)
  /\ UNCHANGED <<stores, clock>>

\* DownloadPlan that goes on to the private bucket when KV.get found nothing
DownloadPlan_ServeOrphan(metadataStr, namespace, key) ==
  IF Falsy(metadataStr)
  THEN [found |-> TRUE,
        metadata |-> BlobMetadata(key, namespace, 0, "", 0, FALSE),
        r2Key |-> r2KeyOf(namespace, key),
        bucket |-> bucketOf(FALSE)]
  ELSE [found |-> TRUE,
        metadata |-> JSONparse(metadataStr),
        r2Key |-> r2KeyOf(namespace, key),
        bucket |-> bucketOf(JSONparse(metadataStr).isPublic)]

\* what stream-download does with the string KV.get returned: answer 404, or
\* parse the record and pick r2Key and the bucket for bucket.get
DownloadPlan(metadataStr, namespace, key) ==
  IF Falsy(metadataStr)
  THEN [found |-> FALSE]
  ELSE [found |-> TRUE,
        metadata |-> JSONparse(metadataStr),
        r2Key |-> r2KeyOf(namespace, key),
        bucket |-> bucketOf(JSONparse(metadataStr).isPublic)]

\* route parameters checked, up to `await c.env.KV.get`
DownloadBegin(p) ==
  /\ pc[p] = "idle"
  /\ \E id \in Idents :
       IF Falsy(id[1]) \/ Falsy(id[2])
       THEN /\ pc' = [pc EXCEPT ![p] = "done"]
            /\ locals' = [locals EXCEPT ![p] = [op |-> "download"]]
            /\ resp' = [resp EXCEPT ![p] = ErrorResponse(400, "Missing namespace or key")]
       ELSE Goto(p, "d_kv", [op |-> "download", namespace |-> id[1], key |-> id[2],
                             kvKey |-> kvKeyOf(id[1], id[2])])
  /\ SoloBegin(p)
  /\ UNCHANGED <<stores, clock, calls, writes>>

\* KV.get resolves; 404, or the record is parsed and the bucket chosen, up
\* to `await bucket.get`
DownloadKVGet(p) ==
  /\ pc[p] = "d_kv"
  /\ LET l == locals[p]
         metadataStr == KVget(KV, l.kvKey)
         plan == DownloadPlan(metadataStr, l.namespace, l.key)
     IN IF ~plan.found
        THEN /\ pc' = [pc EXCEPT ![p] = "done"]
             /\ locals' = [locals EXCEPT ![p] =
                  [op |-> "download", namespace |-> l.namespace, key |-> l.key]]
             /\ resp' = [resp EXCEPT ![p] = BlobNotFound]
        ELSE Goto(p, "d_get", [op |-> "download", namespace |-> l.namespace, key |-> l.key,
                               metadata |-> plan.metadata, r2Key |-> plan.r2Key,
                               bucket |-> plan.bucket])
  /\ Call(p, "KV.get")
  /\ SoloStep(p)
  /\ UNCHANGED <<stores, clock>>

\* the bucket a binding name stands for
Bucket(r2, r2public, bucket) == IF bucket = "R2_PUBLIC" THEN r2public ELSE r2

\* bucket.get resolves; 404 or the streamed response
DownloadBucketGet(p) ==
  /\ pc[p] = "d_get"
  /\ LET l == locals[p]
         object == bucketGet(Bucket(R2, R2_PUBLIC, l.bucket), l.r2Key)
     IN /\ pc' = [pc EXCEPT ![p] = "done"]
        /\ locals' = [locals EXCEPT ![p] =
             [op |-> "download", namespace |-> l.namespace, key |-> l.key]]
        /\ resp' = [resp EXCEPT ![p] = DownloadResponse(l.metadata, object, l.key)]
  /\ Call(p, "bucket.get")
  /\ SoloStep(p)
  /\ UNCHANGED <<stores, clock>>

\* KV.get or bucket.get rejects: the handler throws there
RetrievalThrow(p) ==
  /\ pc[p] \in {"g_kv", "d_kv", "d_get"}
  /\ Finish(p, Thrown)
  /\ calls' = [calls EXCEPT ![p] =
       IF pc[p] = "d_get" THEN [@ EXCEPT !["bucket.get"] = @ + 1]
       ELSE [@ EXCEPT !["KV.get"] = @ + 1]]
  /\ UNCHANGED writes
  /\ SoloStep(p)
  /\ UNCHANGED <<stores, clock>>

Retrieval(p) ==
  GetBegin(p) \/ GetKVGet(p) \/ DownloadBegin(p) \/ DownloadKVGet(p)
    \/ DownloadBucketGet(p) \/ RetrievalThrow(p)

\* get-reference run from start to end on the given metadata store
GetReference(kv, namespace, key) ==
  IF ~BlobGetRequest(namespace, key)
  THEN ErrorResponse(400, "Input Validation Error")
  ELSE GetResponse(KVget(kv, kvKeyOf(namespace, key)), namespace, key)

\* stream-download run from start to end on the given stores
StreamDownload(kv, r2, r2public, namespace, key) ==
  IF Falsy(namespace) \/ Falsy(key)
  THEN ErrorResponse(400, "Missing namespace or key")
  ELSE LET plan == DownloadPlan(KVget(kv, kvKeyOf(namespace, key)), namespace, key)
       IN IF ~plan.found
          THEN BlobNotFound
          ELSE DownloadResponse(plan.metadata,
                                bucketGet(Bucket(r2, r2public, plan.bucket), plan.r2Key),
                                key)

(***************************************************************************)
(* Specifications                                                          *)
(***************************************************************************)
\* every kind of request
Next == \E p \in Procs : Upload(p) \/ Presign(p) \/ Retrieval(p)

Spec == Init /\ [][Next]_vars

\* blobs are created by direct uploads only: no presign request is made
NextUpload == \E p \in Procs : Upload(p) \/ Retrieval(p)

SpecUpload == Init /\ [][NextUpload]_vars

(***************************************************************************)
(* Properties                                                              *)
(***************************************************************************)
\* identifiers every handler accepts: namespace and key both non-empty
ValidIdents == {id \in Idents : ~Falsy(id[1]) /\ ~Falsy(id[2])}

HasRecord(kv, id) == ~Falsy(KVget(kv, kvKeyOf(id[1], id[2])))

RecordOf(kv, id) == JSONparse(KVget(kv, kvKeyOf(id[1], id[2])))

HasObject(bucket, id) == bucketGet(bucket, r2KeyOf(id[1], id[2])) # null

UploadDone(p) == pc[p] = "done" /\ locals[p].op = "upload" /\ resp[p].status = 200

\* C1 (SpecUpload): whenever a metadata record exists for (namespace, key),
\* the bucket that record's isPublic selects holds an object under
\* namespace:key; a record never points at missing bytes.
C1_RecordImpliesObject ==
  \A id \in Idents :
    HasRecord(KV, id) =>
      HasObject(Bucket(R2, R2_PUBLIC, bucketOf(RecordOf(KV, id).isPublic)), id)

\* a record with its object, next to an object an upload left without a
\* record when it failed between its two writes
C1_Witness ==
  /\ \E id \in ValidIdents : HasRecord(KV, id)
  /\ \E id \in ValidIdents :
       /\ ~HasRecord(KV, id)
       /\ HasObject(R2, id) \/ HasObject(R2_PUBLIC, id)
  /\ \E p \in Procs :
       /\ pc[p] = "done" /\ locals[p].op = "upload" /\ resp[p] = Thrown
       /\ calls[p]["bucket.put"] = 1

\* C2 (Spec): when a direct upload that no other request overlapped returns
\* 200, a stream-download of the same (namespace, key) run right after it
\* answers 200 with the uploaded bytes as body, Content-Length the length of
\* the payload and Content-Type the content type of the upload.
C2_RoundTrip ==
  [][\A p \in Procs :
       (pc[p] = "u_kv" /\ pc'[p] = "done" /\ resp'[p].status = 200 /\ solo'[p]) =>
         LET l == locals[p]
             r == StreamDownload(KV', R2', R2_PUBLIC', l.namespace, l.key)
         IN /\ r.status = 200
            /\ r.body = l.body
            /\ r.headers.ContentLength = String(Len(l.body))
            /\ r.headers.ContentType = l.contentType]_vars

\* an upload of text/plain that ran alone over a store another request had
\* written to, and whose blob a download now returns in full
C2_Witness ==
  \E p \in Procs :
    /\ UploadDone(p) /\ solo[p]
    /\ \A q \in Procs : pc[q] = "done"
    /\ \E q \in Procs : q # p /\ calls[q]["KV.put"] = 1
    /\ resp[p].metadata.contentType = "text/plain"
    /\ LET m == resp[p].metadata
           r == StreamDownload(KV, R2, R2_PUBLIC, m.namespace, m.key)
       IN r.status = 200 /\ Len(r.body) = m.size /\ m.size = MaxPayloadLen

\* C3 (Spec): while the metadata store has no record for (namespace, key),
\* get-reference and stream-download both answer 404 "Blob not found",
\* whatever the two buckets hold under namespace:key; and a running
\* stream-download whose KV.get finds no record answers the same.
C3_NoRecordNotServed ==
  /\ [](\A id \in ValidIdents :
          ~HasRecord(KV, id) =>
            /\ GetReference(KV, id[1], id[2]) = [status |-> 404, message |-> "Blob not found"]
            /\ StreamDownload(KV, R2, R2_PUBLIC, id[1], id[2])
                 = [status |-> 404, message |-> "Blob not found"])
  /\ [][\A p \in Procs :
          (pc[p] \in {"d_kv", "g_kv"} /\ pc'[p] # pc[p] /\ resp'[p] # Thrown
             /\ ~HasRecord(KV, <<locals[p].namespace, locals[p].key>>)) =>
            /\ pc'[p] = "done"
            /\ resp'[p] = [status |-> 404, message |-> "Blob not found"]
            /\ calls'[p]["bucket.get"] = 0]_vars

\* a download answered "Blob not found" for a key whose bytes an upload left
\* in a bucket without a record
C3_Witness ==
  \E p \in Procs :
    /\ pc[p] = "done" /\ locals[p].op = "download"
    /\ resp[p] = [status |-> 404, message |-> "Blob not found"]
    /\ LET id == <<locals[p].namespace, locals[p].key>>
       IN /\ ~HasRecord(KV, id)
          /\ HasObject(R2, id) \/ HasObject(R2_PUBLIC, id)

\* C4 (Spec): a direct upload whose body has length zero answers 400 "Empty
\* file" and calls no store: the metadata store and both buckets are left as
\* they were, so a key without a record is still answered "Blob not found";
\* no upload goes on to its writes with an empty body.
C4_EmptyPayloadRejected ==
  /\ [](\A p \in Procs : pc[p] \in {"u_put", "u_kv"} => locals[p].size > 0)
  /\ [][\A p \in Procs :
          (pc[p] = "u_body" /\ pc'[p] = "done" /\ resp'[p] # Thrown) =>
            /\ locals'[p].size = 0
            /\ resp'[p] = [status |-> 400, message |-> "Empty file"]
            /\ stores' = stores
            /\ calls'[p] = NoCalls
            /\ LET id == <<locals[p].namespace, locals[p].key>>
               IN ~HasRecord(KV, id) =>
                    StreamDownload(KV', R2', R2_PUBLIC', id[1], id[2])
                      = [status |-> 404, message |-> "Blob not found"]]_vars

\* an upload rejected for its empty body, the stores still empty
C4_Witness ==
  \E p \in Procs :
    /\ pc[p] = "done" /\ locals[p].op = "upload"
    /\ resp[p] = [status |-> 400, message |-> "Empty file"]
    /\ locals[p].size = 0
    /\ KV = <<>> /\ R2 = <<>> /\ R2_PUBLIC = <<>>

PresignDone(p) == pc[p] = "done" /\ locals[p].op = "presign" /\ resp[p].status = 200

\* the visibility a presigned URL was signed for
SignedPublic(uploadUrl) == uploadUrl.signed.Bucket = "federise-objects-public"

\* C5, as stated (Spec), for non-empty namespace and key: when a presign call
\* returns 200, a get-reference run right after it returns the provisional
\* record with the declared size, contentType and isPublic, and a
\* stream-download run right after it answers 404 "Blob not found in storage".
C5_Original ==
  [][\A p \in Procs :
       (pc[p] = "p_kv" /\ pc'[p] = "done" /\ resp'[p].status = 200
          /\ <<locals[p].metadata.namespace, locals[p].metadata.key>> \in ValidIdents) =>
         LET l == locals[p]
             id == <<l.metadata.namespace, l.metadata.key>>
             g == GetReference(KV', id[1], id[2])
             d == StreamDownload(KV', R2', R2_PUBLIC', id[1], id[2])
         IN /\ g.status = 200
            /\ g.metadata.size = l.uploadUrl.signed.ContentLength
            /\ g.metadata.contentType = l.uploadUrl.signed.ContentType
            /\ g.metadata.isPublic = SignedPublic(l.uploadUrl)
            /\ d = [status |-> 404, message |-> "Blob not found in storage"]]_vars

\* C5, amended (Spec), for non-empty namespace and key: when a presign call
\* returns 200, a get-reference run right after it returns the provisional
\* record with the declared size, contentType and isPublic; a stream-download
\* run right after it never answers "Blob not found": it answers 404 "Blob
\* not found in storage" when the bucket the declared isPublic selects holds
\* no object under namespace:key, and otherwise streams the object an earlier
\* upload left there, with the declared size as Content-Length.
C5_ProvisionalRecord ==
  [][\A p \in Procs :
       (pc[p] = "p_kv" /\ pc'[p] = "done" /\ resp'[p].status = 200
          /\ <<locals[p].metadata.namespace, locals[p].metadata.key>> \in ValidIdents) =>
         LET l == locals[p]
             id == <<l.metadata.namespace, l.metadata.key>>
             g == GetReference(KV', id[1], id[2])
             d == StreamDownload(KV', R2', R2_PUBLIC', id[1], id[2])
             bucket == IF SignedPublic(l.uploadUrl) THEN R2_PUBLIC' ELSE R2'
         IN /\ g.status = 200
            /\ g.metadata.size = l.uploadUrl.signed.ContentLength
            /\ g.metadata.contentType = l.uploadUrl.signed.ContentType
            /\ g.metadata.isPublic = SignedPublic(l.uploadUrl)
            /\ d # [status |-> 404, message |-> "Blob not found"]
            /\ IF HasObject(bucket, id)
               THEN /\ d.status = 200
                    /\ d.body = bucketGet(bucket, r2KeyOf(id[1], id[2])).body
                    /\ d.headers.ContentLength = String(l.uploadUrl.signed.ContentLength)
               ELSE d = [status |-> 404, message |-> "Blob not found in storage"]]_vars

\* a presign has returned its URL, its record is the one in the metadata
\* store, no bucket holds the object: get-reference succeeds, stream-download
\* answers "Blob not found in storage"
C5_Witness ==
  \E p \in Procs :
    /\ PresignDone(p)
    /\ LET m == locals[p].metadata
           id == <<m.namespace, m.key>>
       IN /\ id \in ValidIdents
          /\ KVget(KV, kvKeyOf(id[1], id[2])) = JSONstringify(m)
          /\ ~HasObject(R2, id) /\ ~HasObject(R2_PUBLIC, id)
          /\ GetReference(KV, id[1], id[2]).status = 200
          /\ GetReference(KV, id[1], id[2]).metadata = m
          /\ StreamDownload(KV, R2, R2_PUBLIC, id[1], id[2])
               = [status |-> 404, message |-> "Blob not found in storage"]

\* C6, as stated (Spec): once a record exists for (namespace, key), no step
\* of any request changes the isPublic of the record under that key.
C6_Original ==
  [][\A id \in ValidIdents :
       HasRecord(KV, id) =>
         /\ HasRecord(KV', id)
         /\ RecordOf(KV', id).isPublic = RecordOf(KV, id).isPublic]_vars

\* C7, as stated (Spec): when a direct upload with isPublic = true that no
\* other request overlapped returns 200, a stream-download of its key reads
\* the public bucket and the private bucket holds no object under
\* namespace:key.
C7_Original ==
  [][\A p \in Procs :
       (pc[p] = "u_kv" /\ pc'[p] = "done" /\ resp'[p].status = 200 /\ solo'[p]
          /\ locals[p].metadata.isPublic) =>
         LET l == locals[p]
             id == <<l.namespace, l.key>>
         IN /\ DownloadPlan(KVget(KV', kvKeyOf(id[1], id[2])), id[1], id[2]).bucket
                 = "R2_PUBLIC"
            /\ ~HasObject(R2', id)]_vars

\* some signing credential is not configured
AnyUnconfigured(e) == \E c \in Credentials : ~e[c]

NotConfigured == [status |-> 503, message |-> "R2 credentials not configured for presigned URLs"]

InvalidRequest == [status |-> 400, message |-> "Invalid request body"]

\* C8, as stated (Spec): a presign request whose size is zero or negative is
\* answered 400 "Invalid request body", with no call to the signer and no
\* metadata write, whatever the configuration.
C8_Original ==
  \A p \in Procs :
    (locals[p].op = "presign" /\ locals[p].size <= 0 /\ pc[p] = "done" /\ resp[p] # Thrown) =>
      /\ resp[p] = InvalidRequest
      /\ calls[p] = NoCalls

\* C8, amended (Spec): a presign request whose size is zero or negative never
\* reaches the signer or the metadata store, whatever the rest of the request
\* and the configuration: it is answered 400 "Invalid request body" when all
\* three credentials are configured and 503 when one is not, and every step
\* it takes leaves the metadata store unchanged.
C8_NonPositiveSizeRejected ==
  /\ [](\A p \in Procs :
          (locals[p].op = "presign" /\ locals[p].size <= 0) =>
            /\ pc[p] \in {"p_json", "done"}
            /\ calls[p] = NoCalls
            /\ (pc[p] = "done" /\ resp[p] # Thrown) =>
                 resp[p] = IF AnyUnconfigured(locals[p].env)
                           THEN NotConfigured ELSE InvalidRequest)
  /\ [][\A p \in Procs :
          (pc'[p] # pc[p] /\ locals'[p].op = "presign" /\ locals'[p].size <= 0) =>
            KV' = KV]_vars

\* a presign with size <= 0 under full credentials, answered 400, next to a
\* record another request wrote
C8_Witness ==
  \E p \in Procs :
    /\ pc[p] = "done" /\ locals[p].op = "presign" /\ locals[p].size <= 0
    /\ ~AnyUnconfigured(locals[p].env)
    /\ resp[p] = InvalidRequest
    /\ KV # <<>>

\* C9 (Spec): a presign request made while one of the three credentials is
\* not configured is answered 503 at once: it never calls the signer or any
\* store, and its step leaves the metadata store unchanged.
C9_SigningUnavailable ==
  /\ [](\A p \in Procs :
          (locals[p].op = "presign" /\ AnyUnconfigured(locals[p].env)) =>
            /\ pc[p] = "done"
            /\ resp[p] = NotConfigured
            /\ calls[p] = NoCalls)
  /\ [][\A p \in Procs :
          (pc'[p] # pc[p] /\ locals'[p].op = "presign"
             /\ AnyUnconfigured(locals'[p].env)) =>
            KV' = KV]_vars

\* a presign answered 503 for a missing secret key only, with a positive
\* size, next to a record another request wrote
C9_Witness ==
  \E p \in Procs :
    /\ pc[p] = "done" /\ locals[p].op = "presign"
    /\ locals[p].env = [c \in Credentials |-> c # "R2_SECRET_ACCESS_KEY"]
    /\ locals[p].size > 0
    /\ resp[p] = NotConfigured
    /\ KV # <<>>

\* C10 (Spec): when the body read or bucket.put of a direct upload rejects,
\* the upload ends there with no KV.put: the metadata store, any record for
\* the same key included, is exactly as it was, and the request takes no
\* further step.
C10_FailedWriteNoMetadata ==
  /\ [][\A p \in Procs :
          (pc[p] \in {"u_body", "u_put"} /\ resp'[p] = Thrown) =>
            /\ pc'[p] = "done"
            /\ KV' = KV
            /\ calls'[p]["KV.put"] = 0]_vars
  /\ [][\A p \in Procs :
          (pc[p] = "done" /\ locals[p].op = "upload") =>
            (pc'[p] = "done" /\ calls'[p] = calls[p])]_vars

\* an upload whose bucket.put was rejected, after another request had
\* written a record
C10_Witness ==
  \E p \in Procs :
    /\ pc[p] = "done" /\ locals[p].op = "upload" /\ resp[p] = Thrown
    /\ calls[p]["bucket.put"] = 1 /\ calls[p]["KV.put"] = 0
    /\ ~solo[p]
    /\ KV # <<>>

\* the (namespace, key) a request about to write is working on
Writing(p) == pc[p] \in {"u_put", "u_kv", "p_kv"}

PairOf(p) ==
  IF pc[p] = "p_kv"
  THEN <<locals[p].metadata.namespace, locals[p].metadata.key>>
  ELSE <<locals[p].namespace, locals[p].key>>

\* C11, as stated (Spec): the pair a writing request works on and any other
\* pair have different storage keys and different metadata keys, and the
\* write of an upload or presign for one pair leaves what get-reference and
\* stream-download return for every other pair unchanged.
C11_Original ==
  [][\A p \in Procs : \A id \in Idents :
       (Writing(p) /\ pc'[p] # pc[p] /\ id # PairOf(p)) =>
         /\ r2KeyOf(id[1], id[2]) # r2KeyOf(PairOf(p)[1], PairOf(p)[2])
         /\ kvKeyOf(id[1], id[2]) # kvKeyOf(PairOf(p)[1], PairOf(p)[2])
         /\ GetReference(KV', id[1], id[2]) = GetReference(KV, id[1], id[2])
         /\ StreamDownload(KV', R2', R2_PUBLIC', id[1], id[2])
              = StreamDownload(KV, R2, R2_PUBLIC, id[1], id[2])]_vars

\* C12, as stated (Spec): no request that carries an empty namespace or an
\* empty key gets as far as a write, and no record in the metadata store has
\* an empty namespace or an empty key.
C12_Original ==
  /\ \A p \in Procs : Writing(p) => PairOf(p) \in ValidIdents
  /\ \A kvKey \in DOMAIN KV :
       /\ ~Falsy(JSONparse(KV[kvKey]).namespace)
       /\ ~Falsy(JSONparse(KV[kvKey]).key)

\* the request among S whose put to collaborator c the store applied last
LastWriter(c, S) ==
  LET I == {i \in 1..Len(writes) : writes[i][2] = c /\ writes[i][1] \in S}
  IN writes[CHOOSE i \in I : \A j \in I : j <= i][1]

PairDone(p) == <<resp[p].metadata.namespace, resp[p].metadata.key>>

\* C13 (Spec): once two direct uploads of the same (namespace, key) have both
\* returned 200, the record under the key is the one written by the upload
\* whose KV.put was applied last, and each bucket one of them wrote to holds
\* the body and content type of the upload whose bucket.put to that bucket
\* was applied last, whichever way the four puts interleaved.
C13_LastWriteWins ==
  \A p, q \in Procs :
    (p # q /\ UploadDone(p) /\ UploadDone(q) /\ PairDone(p) = PairDone(q)) =>
      LET id == PairDone(p)
          kvw == LastWriter("KV.put", {p, q})
      IN /\ KVget(KV, kvKeyOf(id[1], id[2])) = JSONstringify(resp[kvw].metadata)
         /\ \A b \in {"R2", "R2_PUBLIC"} :
              LET ws == {w \in {p, q} : bucketOf(resp[w].metadata.isPublic) = b}
              IN ws # {} =>
                   LET bw == LastWriter("bucket.put", ws)
                   IN bucketGet(Bucket(R2, R2_PUBLIC, b), r2KeyOf(id[1], id[2]))
                        = R2Object(locals[bw].body, resp[bw].metadata.contentType)

\* the two uploads of one key, to one bucket, with bodies of different
\* lengths, have applied their four puts in the given order
C13_Reached(order) ==
  /\ \A p \in Procs : UploadDone(p)
  /\ PairDone("r1") = PairDone("r2")
  /\ resp["r1"].metadata.isPublic = resp["r2"].metadata.isPublic
  /\ locals["r1"].body # locals["r2"].body
  /\ writes = order

\* the six orders two uploads can apply their puts in, each upload's
\* bucket.put before its own KV.put
C13_Orders ==
  LET b1 == <<"r1", "bucket.put">>
      k1 == <<"r1", "KV.put">>
      b2 == <<"r2", "bucket.put">>
      k2 == <<"r2", "KV.put">>
  IN {<<b1, k1, b2, k2>>, <<b1, b2, k1, k2>>, <<b1, b2, k2, k1>>,
      <<b2, k2, b1, k1>>, <<b2, b1, k2, k1>>, <<b2, b1, k1, k2>>}

\* C13 (Spec), ordering half: two completed uploads applied their four puts
\* in one of the six orders, and nothing serialises them into fewer.
C13_PutsInterleave ==
  (\A p \in Procs : UploadDone(p)) => writes \in C13_Orders

C13_Order1 == C13_Reached(<<<<"r1", "bucket.put">>, <<"r1", "KV.put">>,
                            <<"r2", "bucket.put">>, <<"r2", "KV.put">>>>)

C13_Order2 == C13_Reached(<<<<"r1", "bucket.put">>, <<"r2", "bucket.put">>,
                            <<"r1", "KV.put">>, <<"r2", "KV.put">>>>)

\* r1's object write, r2's object write, r2's metadata write, r1's metadata
\* write: the bucket holds r2's body, the record is r1's
C13_Witness ==
  /\ C13_Reached(<<<<"r1", "bucket.put">>, <<"r2", "bucket.put">>,
                   <<"r2", "KV.put">>, <<"r1", "KV.put">>>>)
  /\ LET id == PairDone("r1")
     IN /\ RecordOf(KV, id) = resp["r1"].metadata
        /\ bucketGet(Bucket(R2, R2_PUBLIC, bucketOf(resp["r1"].metadata.isPublic)),
                     r2KeyOf(id[1], id[2])).body = locals["r2"].body

\* how many collaborator calls request p has made
TotalCalls(cs) ==
  cs["KV.get"] + cs["KV.put"] + cs["bucket.get"] + cs["bucket.put"] + cs["getSignedUrl"]

Failed(p) == pc[p] = "done" /\ resp[p] = Thrown

\* C14 (Spec): no request calls bucket.put, KV.put or getSignedUrl more than
\* once, and KV.put is only called after the one bucket.put (upload) or the
\* one getSignedUrl (presign) has resolved.  The step at which an await
\* rejects makes that one call, changes no store, and the request makes no
\* call and takes no step afterwards.
C14_AtMostOnce ==
  /\ [](\A p \in Procs :
          /\ calls[p]["bucket.put"] <= 1
          /\ calls[p]["KV.put"] <= 1
          /\ calls[p]["getSignedUrl"] <= 1
          /\ locals[p].op = "upload" =>
               /\ calls[p]["getSignedUrl"] = 0
               /\ calls[p]["KV.put"] = 1 => calls[p]["bucket.put"] = 1
          /\ locals[p].op = "presign" =>
               /\ calls[p]["bucket.put"] = 0
               /\ calls[p]["KV.put"] = 1 => calls[p]["getSignedUrl"] = 1)
  /\ [][\A p \in Procs :
          /\ (pc[p] # "done" /\ pc'[p] = "done" /\ resp'[p] = Thrown) =>
               /\ stores' = stores
               /\ TotalCalls(calls'[p]) <= TotalCalls(calls[p]) + 1
          /\ pc[p] = "done" =>
               /\ pc'[p] = "done"
               /\ calls'[p] = calls[p]
               /\ resp'[p] = resp[p]]_vars

\* an upload whose bucket.put rejected and a presign whose getSignedUrl
\* rejected: each made that one call and never reached its KV.put
C14_Witness ==
  \E p, q \in Procs :
    /\ Failed(p) /\ locals[p].op = "upload"
    /\ calls[p]["bucket.put"] = 1 /\ calls[p]["KV.put"] = 0
    /\ Failed(q) /\ locals[q].op = "presign"
    /\ calls[q]["getSignedUrl"] = 1 /\ calls[q]["KV.put"] = 0
    /\ KV = <<>> /\ R2 = <<>> /\ R2_PUBLIC = <<>>

\* C15 (Spec): a presign request is about to write metadata only after its
\* one getSignedUrl call resolved; no response exists before the request is
\* done; a 200 response carrying an upload URL exists only after the
\* request's KV.put was applied, and then a record exists under the key the
\* URL signs.  The step taken while the signer is awaited, whether it
\* resolves or rejects, leaves the metadata store unchanged.
C15_PresignOrdered ==
  /\ [](\A p \in Procs :
          /\ pc[p] = "p_kv" =>
               /\ calls[p]["getSignedUrl"] = 1
               /\ calls[p]["KV.put"] = 0
          /\ pc[p] # "done" => resp[p] = NoResp
          /\ PresignDone(p) =>
               LET m == locals[p].metadata
               IN /\ calls[p]["getSignedUrl"] = 1
                  /\ calls[p]["KV.put"] = 1
                  /\ \E i \in 1..Len(writes) : writes[i] = <<p, "KV.put">>
                  /\ resp[p].uploadUrl.signed.Key = r2KeyOf(m.namespace, m.key)
                  /\ HasRecord(KV, <<m.namespace, m.key>>))
  /\ [][\A p \in Procs :
          (pc[p] = "p_sign" /\ pc'[p] # "p_sign") => KV' = KV]_vars

\* one presign returned its URL and its record is the only one in the
\* metadata store; the other presign failed in the signer and wrote nothing
C15_Witness ==
  \E p, q \in Procs :
    /\ PresignDone(p)
    /\ DOMAIN KV = {kvKeyOf(locals[p].metadata.namespace, locals[p].metadata.key)}
    /\ Failed(q) /\ locals[q].op = "presign"
    /\ calls[q]["getSignedUrl"] = 1 /\ calls[q]["KV.put"] = 0

GetDone(p) == pc[p] = "done" /\ locals[p].op = "get" /\ resp[p].status = 200

\* C16 (Spec): no step removes a key from the metadata store, so a record
\* that exists for (namespace, key) exists after every step, a get-reference
\* that would succeed before a step would succeed after it, and a
\* get-reference request that returned 200 would return 200 again in every
\* later state.
C16_RecordsKept ==
  /\ [](\A p \in Procs :
          GetDone(p) => GetReference(KV, locals[p].namespace, locals[p].key).status = 200)
  /\ [][/\ DOMAIN KV \subseteq DOMAIN KV'
        /\ \A id \in Idents :
             /\ HasRecord(KV, id) => HasRecord(KV', id)
             /\ GetReference(KV, id[1], id[2]).status = 200 =>
                  GetReference(KV', id[1], id[2]).status = 200]_vars

\* two requests wrote records under different keys one after the other, and
\* the record written first is still there and get-reference finds it
C16_Witness ==
  /\ Len(writes) >= 2
  /\ writes[Len(writes)][2] = "KV.put"
  /\ \E id \in ValidIdents :
       /\ HasRecord(KV, id)
       /\ \E q \in Procs :
            /\ writes[Len(writes)][1] = q
            /\ PresignDone(q)
            /\ kvKeyOf(locals[q].metadata.namespace, locals[q].metadata.key)
                 # kvKeyOf(id[1], id[2])
       /\ GetReference(KV, id[1], id[2]).status = 200

\* pairs whose derived keys no other pair derives: every write under such a
\* key is by a request for that pair
Unambiguous ==
  {id \in ValidIdents :
     \A other \in Idents : other # id => r2KeyOf(other[1], other[2]) # r2KeyOf(id[1], id[2])}

\* C17 (SpecUpload): with only direct uploads and retrievals running, once
\* two uploads of the same (namespace, key) have both returned 200, however
\* their steps interleaved, a stream-download of that key that returns 200
\* carries a Content-Length equal to the length of the body it streams.
\* (While an upload is still between its two writes the same mismatch is
\* visible already; the states counted here are the ones where it stays.)
C17_Original ==
  \A id \in Unambiguous :
    (\A p \in Procs : UploadDone(p) /\ PairDone(p) = id) =>
      LET r == StreamDownload(KV, R2, R2_PUBLIC, id[1], id[2])
      IN r.status = 200 => r.headers.ContentLength = String(Len(r.body))

\* C18 (Spec): a stream-download of (namespace, key) that would return 200
\* before a step of any request would return 200 after it.
C18_Original ==
  [][\A id \in Unambiguous :
       StreamDownload(KV, R2, R2_PUBLIC, id[1], id[2]).status = 200 =>
         StreamDownload(KV', R2', R2_PUBLIC', id[1], id[2]).status = 200]_vars

IsRetrieval(l) == l.op \in {"get", "download"}

\* C19 (Spec): a get-reference or stream-download request never calls
\* KV.put, bucket.put or the signer, and a get-reference request never calls
\* bucket.get.  No step of such a request, whatever response it ends in,
\* changes the metadata store or either bucket.  The response a
\* get-reference request computes when its KV.get resolves is the one
\* determined by the metadata store alone.
C19_ReadOnly ==
  /\ [](\A p \in Procs :
          IsRetrieval(locals[p]) =>
            /\ calls[p]["KV.put"] = 0
            /\ calls[p]["bucket.put"] = 0
            /\ calls[p]["getSignedUrl"] = 0
            /\ locals[p].op = "get" => calls[p]["bucket.get"] = 0)
  /\ [][\A p \in Procs :
          (pc'[p] # pc[p] /\ IsRetrieval(locals'[p])) =>
            /\ stores' = stores
            /\ writes' = writes
            /\ (pc[p] = "g_kv" /\ resp'[p] # Thrown) =>
                 resp'[p] = GetReference(KV, locals[p].namespace, locals[p].key)]_vars

\* a get-reference returned 200 for a record whose object is in neither
\* bucket, having called KV.get once and bucket.get never
C19_Witness ==
  \E p \in Procs :
    /\ GetDone(p)
    /\ calls[p]["KV.get"] = 1
    /\ calls[p]["bucket.get"] = 0
    /\ HasRecord(KV, <<locals[p].namespace, locals[p].key>>)
    /\ R2 = <<>>
    /\ R2_PUBLIC = <<>>

====
